---- MODULE Spec2Model ----
(***************************************************************************)
(* The per-frame translation controller TranslationChild                   *)
(* (src/unnamed/part_001): language detection gating, the translation      *)
(* status broadcasts deferred through setTimeout(0), and doTranslation.    *)
(*                                                                         *)
(* One TranslationChild instance (one frame) is modelled.  Every call of   *)
(* an async method is an activation: the record calls[i] holds its         *)
(* position (pc) and its local variables.  The state store                 *)
(* (ExtensionState) is write-only for the controller, so it is modelled as *)
(* the log of the calls delivered to it.                                   *)
(***************************************************************************)
EXTENDS Integers, Sequences, FiniteSets, TLC

\* ---------------------------------------------------------------- bounds
MaxCalls == 2          \* activations of async methods per behaviour
MaxUnits == 2          \* translatable units (roots) of a TranslationDocument

\* ------------------------------------------------------- program constants
MinSampleLength == 100
MaxSampleLength == 60 * 1024

\* TranslationStatus (BaseTranslationState), as used by the controller
UNAVAILABLE == "UNAVAILABLE"
DETECTING_LANGUAGE == "DETECTING_LANGUAGE"
LANGUAGE_NOT_DETECTED == "LANGUAGE_NOT_DETECTED"
OFFER == "OFFER"
TRANSLATING == "TRANSLATING"
TRANSLATED == "TRANSLATED"
ERROR == "ERROR"

\* ------------------------------------------------------------------ inputs
\* Strings are sequences of characters so that startsWith is computed.
HttpPrefix == <<"h", "t", "t", "p", ":", "/", "/">>
HttpsPrefix == <<"h", "t", "t", "p", "s", ":", "/", "/">>

\* String(this.document.location): https://e and file:///l
Urls ==
  { HttpsPrefix \o <<"e">>,
    <<"f", "i", "l", "e", ":", "/", "/", "/", "l">> }

\* The text lengths of the translation nodes of the page (textContent of
\* each node); the sample is these joined with "\n".
NodeLists ==
  { <<99>>, <<49, 49>>, <<49, 50>>, <<100>> }

Languages == { <<"es", "en">> }

DetectorResults ==
  { [language |-> "es", confident |-> TRUE],
    [language |-> "es", confident |-> FALSE] }

NoResult == [language |-> "", confident |-> FALSE]
NoText == <<>>

\* The text of a translatable unit of the page before any translation
OriginalText == <<"text">>

\* What the first callback of an observer can report for the elements it
\* observes: none intersecting, all intersecting, only the first intersecting
Entries(observing) ==
  { [el \in observing |-> FALSE], [el \in observing |-> TRUE],
    [el \in observing |-> el = 1] }

\* The pages: one without translatable units, one with MaxUnits of them
Pages == { <<>>, [u \in 1..MaxUnits |-> OriginalText] }

VARIABLES
  dom,              \* this.document: the current text of each translatable unit
  contentWindow,    \* this.contentWindow: alive flag and .translationDocument
  docs,             \* the TranslationDocument objects constructed so far
  calls,            \* activations of attemptToDetectLanguage / doTranslation
  timers,           \* callbacks scheduled with setTimeout(..., 0), in order
  storeCalls,       \* calls delivered to this.extensionState, in order
  detectorCalls,    \* activations that called languageDetector.detectLanguage
  issued            \* broadcastUpdatedTranslationStatus calls, in order

vars == <<dom, contentWindow, docs, calls, timers, storeCalls, detectorCalls, issued>>

\* ----------------------------------------------------------- pure helpers
Min(a, b) == IF a < b THEN a ELSE b

RECURSIVE SumSeq(_)
SumSeq(s) == IF s = <<>> THEN 0 ELSE Head(s) + SumSeq(Tail(s))

\* String.prototype.startsWith
StartsWith(s, p) == Len(s) >= Len(p) /\ SubSeq(s, 1, Len(p)) = p

\* elements.map(el => el.textContent).join("\n").substr(0, maxLength),
\* as the length of the resulting string
domElementsToStringWithMaxLength(elements, maxLength) ==
  LET joined == SumSeq(elements) +
                (IF Len(elements) > 0 THEN Len(elements) - 1 ELSE 0)
  IN Min(joined, maxLength)

\* Variant: the guard with its negations lost.
NotWebUrlInverted(url) == StartsWith(url, HttpPrefix) \/ StartsWith(url, HttpsPrefix)

\* !url.startsWith("http://") && !url.startsWith("https://")
NotWebUrl(url) == ~StartsWith(url, HttpPrefix) /\ ~StartsWith(url, HttpsPrefix)

\* Variant: the threshold compared with <=.
SampleTooShortInclusive(len) == len <= MinSampleLength

\* string.length < 100
SampleTooShort(len) == len < MinSampleLength

\* Variant: the newest callback runs first.
setTimeoutNewestFirst(q, callback) == <<callback>> \o q

\* setTimeout(callback, 0): the callback joins the timer queue
setTimeout(q, callback) == Append(q, callback)

StatusPatch(status, by) ==
  [op |-> "replace", path |-> "translationStatus", value |-> status, by |-> by]

ResultPatch(result, by) ==
  [op |-> "add", path |-> "detectedLanguageResults", result |-> result, by |-> by]

StateDelete(by) == [op |-> "delete", by |-> by]

\* Variant: a status update still pending is overwritten by the next one
\* (batching of updates).
broadcastBatched(q, status, by) ==
  IF q # <<>> /\ q[Len(q)].op = "replace"
  THEN [q EXCEPT ![Len(q)] = [op |-> "replace", path |-> "translationStatus",
                              value |-> status, by |-> by]]
  ELSE Append(q, [op |-> "replace", path |-> "translationStatus",
                  value |-> status, by |-> by])

broadcastUpdatedTranslationStatus(q, status, by) ==
  setTimeout(q, StatusPatch(status, by))

\* new TranslationDocument(this.document): the units are extracted from the
\* document as it is now; their text is retained as the originals.
NewTranslationDocument(page) ==
  [translatedFrom |-> "", translatedTo |-> "", translationError |-> FALSE,
   originals |-> page, units |-> [u \in 1..Len(page) |-> NoText],
   shown |-> FALSE]

\* The translation backend: the translation of a text for a language pair
translateText(text, from, to) == text \o <<from, to>>

Activation(kind) ==
  [kind |-> kind, pc |-> "start", out |-> "", url |-> <<>>, len |-> 0,
   result |-> NoResult, from |-> "", to |-> "", doc |-> 0, next |-> 0,
   solo |-> FALSE, gone |-> FALSE, orphaned |-> FALSE,
   observing |-> {}, fired |-> 0, entries |-> <<>>, visible |-> {}]
\* solo, gone and orphaned record the history of the activation: whether no
\* other activation was in flight when it was called, whether the content
\* window was null when its awaited call settled, and whether the frame was
\* destroyed while it was awaiting.

InFlight(cs) == { i \in 1..Len(cs) : cs[i].pc \in {"awaitDetect", "awaitTranslate"} }

Init ==
  /\ dom \in Pages
  /\ contentWindow = [alive |-> TRUE, translationDocument |-> 0]
  /\ docs = <<>>
  /\ calls = <<>>
  /\ timers = <<>>
  /\ storeCalls = <<>>
  /\ detectorCalls = {}
  /\ issued = <<>>

\* ------------------------------------------------------------------ actions
\* attemptToDetectLanguage(), from its call to its first await or return.
attemptToDetectLanguage(url, nodeList) ==
  /\ Len(calls) < MaxCalls
  /\ LET id == Len(calls) + 1
         string == domElementsToStringWithMaxLength(nodeList, MaxSampleLength)
         a == [Activation("detect") EXCEPT !.url = url, !.solo = (InFlight(calls) = {})]
     IN IF NotWebUrl(url)
        THEN /\ timers' = broadcastUpdatedTranslationStatus(timers, UNAVAILABLE, id)
             /\ issued' = Append(issued, StatusPatch(UNAVAILABLE, id))
             /\ calls' = Append(calls, [a EXCEPT !.pc = "done", !.out = "unavailable"])
             /\ UNCHANGED detectorCalls
        ELSE IF SampleTooShort(string)
        THEN /\ timers' = broadcastUpdatedTranslationStatus(
                            broadcastUpdatedTranslationStatus(timers, DETECTING_LANGUAGE, id),
                            LANGUAGE_NOT_DETECTED, id)
             /\ issued' = issued \o <<StatusPatch(DETECTING_LANGUAGE, id),
                                      StatusPatch(LANGUAGE_NOT_DETECTED, id)>>
             /\ calls' = Append(calls, [a EXCEPT !.pc = "done", !.out = "short",
                                                 !.len = string])
             /\ UNCHANGED detectorCalls
        ELSE /\ timers' = broadcastUpdatedTranslationStatus(timers, DETECTING_LANGUAGE, id)
             /\ issued' = Append(issued, StatusPatch(DETECTING_LANGUAGE, id))
             /\ detectorCalls' = detectorCalls \cup {id}
             /\ calls' = Append(calls, [a EXCEPT !.pc = "awaitDetect", !.len = string])
  /\ UNCHANGED <<dom, contentWindow, docs, storeCalls>>

\* Variant: the staleness check never fires.
WindowGoneIgnored(cw) == FALSE

\* if (!this.contentWindow)
WindowGone(cw) == ~cw.alive

\* Variant: the confidence test without its negation.
DetectionStatusFlipped(result) ==
  IF result.confident THEN LANGUAGE_NOT_DETECTED ELSE OFFER

\* if (!result.confident) ... LANGUAGE_NOT_DETECTED, otherwise OFFER
DetectionStatus(result) ==
  IF ~result.confident THEN LANGUAGE_NOT_DETECTED ELSE OFFER

\* Variant: the status is broadcast before the results are saved.
broadcastThenSaveResults(q, result, status, by) ==
  setTimeout(broadcastUpdatedTranslationStatus(q, status, by),
             ResultPatch(result, by))

\* "Save results in extension state" (setTimeout with the add patch), then
\* the broadcast of the status that follows from the result
saveResultsThenBroadcast(q, result, status, by) ==
  broadcastUpdatedTranslationStatus(setTimeout(q, ResultPatch(result, by)),
                                    status, by)

\* The continuation of attemptToDetectLanguage after
\* await this.languageDetector.detectLanguage(string) resolved with result.
detectLanguageResolved(id, result) ==
  /\ calls[id].kind = "detect"
  /\ calls[id].pc = "awaitDetect"
  /\ IF WindowGone(contentWindow)
     THEN /\ timers' = setTimeout(timers, StateDelete(id))
          /\ issued' = issued
          /\ calls' = [calls EXCEPT ![id].pc = "done", ![id].out = "stale",
                                    ![id].result = result,
                                    ![id].gone = ~contentWindow.alive]
     ELSE /\ timers' = saveResultsThenBroadcast(timers, result,
                                                DetectionStatus(result), id)
          /\ issued' = Append(issued, StatusPatch(DetectionStatus(result), id))
          /\ calls' = [calls EXCEPT ![id].pc = "done", ![id].out = "detected",
                                    ![id].result = result,
                                    ![id].gone = ~contentWindow.alive]
  /\ UNCHANGED <<dom, contentWindow, docs, storeCalls, detectorCalls>>

\* detectLanguage rejected: the await throws, no handler encloses it, and the
\* promise returned by attemptToDetectLanguage rejects.
detectLanguageRejected(id) ==
  /\ calls[id].kind = "detect"
  /\ calls[id].pc = "awaitDetect"
  /\ calls' = [calls EXCEPT ![id].pc = "rejected", ![id].out = "rejected"]
  /\ UNCHANGED <<dom, contentWindow, docs, timers, storeCalls, detectorCalls, issued>>

\* Variant: the document stored on the content window is not looked up.
existingTranslationDocumentIgnored(cw) == 0

\* this.contentWindow.translationDocument || ...: the document stored on
\* the content window, 0 when there is none
existingTranslationDocument(cw) == cw.translationDocument

\* doTranslation(aFrom, aTo), from its call to await translator.translate().
\* Reading this.contentWindow.translationDocument of a null contentWindow
\* throws before the try block: the returned promise rejects.
doTranslation(aFrom, aTo) ==
  /\ Len(calls) < MaxCalls
  /\ LET id == Len(calls) + 1
         a == [Activation("translate") EXCEPT !.from = aFrom, !.to = aTo,
                                              !.solo = (InFlight(calls) = {})]
     IN IF ~contentWindow.alive
        THEN /\ calls' = Append(calls, [a EXCEPT !.pc = "rejected", !.out = "threw"])
             /\ UNCHANGED <<contentWindow, docs, timers, issued>>
        ELSE LET reuse == existingTranslationDocument(contentWindow) # 0
                 d == IF reuse THEN existingTranslationDocument(contentWindow)
                      ELSE Len(docs) + 1
                 docs1 == IF reuse THEN docs
                          ELSE Append(docs, NewTranslationDocument(dom))
             IN /\ timers' = broadcastUpdatedTranslationStatus(timers, TRANSLATING, id)
                /\ issued' = Append(issued, StatusPatch(TRANSLATING, id))
                /\ contentWindow' = [contentWindow EXCEPT !.translationDocument = d]
                /\ docs' = [docs1 EXCEPT ![d].translatedFrom = aFrom,
                                         ![d].translatedTo = aTo,
                                         ![d].translationError = FALSE]
                /\ calls' = Append(calls, [a EXCEPT !.pc = "awaitTranslate",
                                                    !.doc = d, !.next = 1])
  /\ UNCHANGED <<dom, storeCalls, detectorCalls>>

\* BergamotTranslator.translate(): one partition's response is written back
\* into its unit; the text is derived from the retained original of the unit
\* for the language pair the translator was constructed with.
translatePartitionApplied(id) ==
  /\ calls[id].kind = "translate"
  /\ calls[id].pc = "awaitTranslate"
  /\ calls[id].next <= Len(docs[calls[id].doc].units)
  /\ LET u == calls[id].next
         translated == translateText(docs[calls[id].doc].originals[u],
                                     calls[id].from, calls[id].to)
     IN /\ docs' = [docs EXCEPT ![calls[id].doc].units[u] = translated]
        /\ dom' = [dom EXCEPT ![u] = translated]
  /\ calls' = [calls EXCEPT ![id].next = @ + 1]
  /\ UNCHANGED <<contentWindow, timers, storeCalls, detectorCalls, issued>>

\* translationDocument.showTranslation()
showTranslation(doc) == [doc EXCEPT !.shown = TRUE]

\* The continuation of doTranslation after await translator.translate()
\* resolved: try-block remainder.
translateResolved(id) ==
  /\ calls[id].kind = "translate"
  /\ calls[id].pc = "awaitTranslate"
  /\ calls[id].next > Len(docs[calls[id].doc].units)
  /\ docs' = [docs EXCEPT ![calls[id].doc] = showTranslation(@)]
  /\ timers' = broadcastUpdatedTranslationStatus(timers, TRANSLATED, id)
  /\ issued' = Append(issued, StatusPatch(TRANSLATED, id))
  /\ calls' = [calls EXCEPT ![id].pc = "done", ![id].out = "translated",
                            ![id].gone = ~contentWindow.alive]
  /\ UNCHANGED <<dom, contentWindow, storeCalls, detectorCalls>>

\* Variant: the catch block does not record the failure on the document.
doTranslationCatchFlagLost(doc) == doc

\* Variant: the catch block also discards the texts already applied.
doTranslationCatchRollback(doc) ==
  [doc EXCEPT !.translationError = TRUE, !.units = [u \in DOMAIN doc.units |-> NoText]]

\* The catch block of doTranslation.
doTranslationCatch(doc) == [doc EXCEPT !.translationError = TRUE]

\* translator.translate() rejected (a partition failed): catch block.
translateRejected(id) ==
  /\ calls[id].kind = "translate"
  /\ calls[id].pc = "awaitTranslate"
  /\ docs' = [docs EXCEPT ![calls[id].doc] = doTranslationCatch(@)]
  /\ timers' = broadcastUpdatedTranslationStatus(timers, ERROR, id)
  /\ issued' = Append(issued, StatusPatch(ERROR, id))
  /\ calls' = [calls EXCEPT ![id].pc = "done", ![id].out = "error",
                            ![id].gone = ~contentWindow.alive]
  /\ UNCHANGED <<dom, contentWindow, storeCalls, detectorCalls>>

\* Variant: the observer stays connected after its callback.
disconnectOmitted(observing) == observing

\* $observer.disconnect(): the observer observes nothing any more
disconnect(observing) == {}

\* elements.forEach(el => observer.observe(el))
observe(elements) == elements

\* entries.filter(entry => entry.isIntersecting).map(entry => entry.target),
\* the entries given as the function target -> isIntersecting
elementsInViewport(entries) == { el \in DOMAIN entries : entries[el] }

\* Variant: the statistics call keeps the document it constructed on the
\* content window.
getDocumentTranslationStatisticsAttaching ==
  /\ Len(calls) < MaxCalls
  /\ contentWindow.alive
  /\ existingTranslationDocument(contentWindow) = 0
  /\ docs' = Append(docs, NewTranslationDocument(dom))
  /\ contentWindow' = [contentWindow EXCEPT !.translationDocument = Len(docs) + 1]
  /\ calls' = Append(calls,
                [Activation("stats") EXCEPT !.pc = "awaitVisible",
                                            !.doc = Len(docs) + 1,
                                            !.observing = observe(1..Len(dom))])
  /\ UNCHANGED <<dom, timers, storeCalls, detectorCalls, issued>>

\* getDocumentTranslationStatistics(), from its call to
\* await this.getElementsVisibleInViewport(elements).  A document constructed
\* here is a local of the call (doc = 0): it is stored nowhere.  With a null
\* contentWindow the read of its translationDocument throws.
getDocumentTranslationStatistics ==
  /\ Len(calls) < MaxCalls
  /\ LET a == Activation("stats")
     IN IF ~contentWindow.alive
        THEN calls' = Append(calls, [a EXCEPT !.pc = "rejected", !.out = "threw"])
        ELSE LET d == existingTranslationDocument(contentWindow)
                 translationDocument == IF d # 0 THEN docs[d]
                                        ELSE NewTranslationDocument(dom)
                 elements == DOMAIN translationDocument.units
             IN calls' = Append(calls, [a EXCEPT !.pc = "awaitVisible", !.doc = d,
                                                 !.observing = observe(elements)])
  /\ UNCHANGED <<dom, contentWindow, docs, timers, storeCalls, detectorCalls, issued>>

\* The IntersectionObserver of getElementsVisibleInViewport delivers a
\* callback with one entry per observed element: the callback disconnects the
\* observer and resolves the promise; the first resolution lets
\* getDocumentTranslationStatistics continue to its return.
intersectionCallback(id, entries) ==
  /\ calls[id].kind = "stats"
  /\ calls[id].observing # {}
  /\ DOMAIN entries = calls[id].observing
  /\ calls' = [calls EXCEPT
                 ![id] = [@ EXCEPT
                   !.observing = disconnect(@),
                   !.fired = Min(@ + 1, 2),
                   !.entries = IF calls[id].fired = 0 THEN entries ELSE @,
                   !.visible = IF calls[id].pc = "awaitVisible"
                               THEN elementsInViewport(entries) ELSE @,
                   !.out = IF calls[id].pc = "awaitVisible" THEN "stats" ELSE @,
                   !.pc = IF calls[id].pc = "awaitVisible" THEN "done" ELSE @]]
  /\ UNCHANGED <<dom, contentWindow, docs, timers, storeCalls, detectorCalls, issued>>

\* Variant: the event loop runs the newest pending callback first.
timerFiresNewest ==
  /\ timers # <<>>
  /\ storeCalls' = Append(storeCalls, timers[Len(timers)])
  /\ timers' = SubSeq(timers, 1, Len(timers) - 1)
  /\ UNCHANGED <<dom, contentWindow, docs, calls, detectorCalls, issued>>

\* The event loop runs the oldest pending setTimeout(..., 0) callback, which
\* calls patchDocumentTranslationStateByFrameInfo or
\* deleteDocumentTranslationStateByFrameInfo on this.extensionState.
timerFires ==
  /\ timers # <<>>
  /\ storeCalls' = Append(storeCalls, Head(timers))
  /\ timers' = Tail(timers)
  /\ UNCHANGED <<dom, contentWindow, docs, calls, detectorCalls, issued>>

\* The frame is torn down: the public field contentWindow becomes null.
\* Activations awaiting an external call at that moment are orphaned.
frameDestroyed ==
  /\ contentWindow.alive
  /\ contentWindow' = [alive |-> FALSE, translationDocument |-> 0]
  /\ calls' = [i \in 1..Len(calls) |->
                 IF calls[i].pc \in {"awaitDetect", "awaitTranslate"}
                 THEN [calls[i] EXCEPT !.orphaned = TRUE] ELSE calls[i]]
  /\ UNCHANGED <<dom, docs, timers, storeCalls, detectorCalls, issued>>

Next ==
  \/ \E url \in Urls, nodeList \in NodeLists : attemptToDetectLanguage(url, nodeList)
  \/ \E id \in 1..Len(calls), result \in DetectorResults : detectLanguageResolved(id, result)
  \/ \E id \in 1..Len(calls) : detectLanguageRejected(id)
  \/ \E pair \in Languages : doTranslation(pair[1], pair[2])
  \/ \E id \in 1..Len(calls) : translatePartitionApplied(id)
  \/ \E id \in 1..Len(calls) : translateResolved(id)
  \/ \E id \in 1..Len(calls) : translateRejected(id)
  \/ timerFires
  \/ frameDestroyed
  \/ getDocumentTranslationStatistics
  \/ \E id \in 1..Len(calls) :
       \E entries \in Entries(calls[id].observing) : intersectionCallback(id, entries)

Spec == Init /\ [][Next]_vars

\* The event loop eventually runs every pending timer callback.
FairSpec == Spec /\ WF_vars(timerFires)

\* An awaited detector or translator call makes progress and settles.
externalCallSettles ==
  \E id \in 1..Len(calls) :
    \/ \E result \in DetectorResults : detectLanguageResolved(id, result)
    \/ detectLanguageRejected(id)
    \/ translatePartitionApplied(id)
    \/ translateResolved(id)
    \/ translateRejected(id)

\* An observer that observes at least one element delivers its callback.
observerDelivers ==
  \E id \in 1..Len(calls) :
    \E entries \in Entries(calls[id].observing) : intersectionCallback(id, entries)

\* The event loop eventually runs every pending timer callback, every
\* awaited external call eventually settles, and the visibility primitive
\* eventually calls back while something is observed.
LiveSpec ==
  /\ Spec
  /\ WF_vars(timerFires)
  /\ WF_vars(externalCallSettles)
  /\ WF_vars(observerDelivers)

TypeOK ==
  /\ contentWindow.alive \in BOOLEAN
  /\ Len(calls) <= MaxCalls
  /\ Len(docs) <= MaxCalls

\* ------------------------------------------------ vocabulary of the claims
IsStatusPatch(c) == c.op = "replace" /\ c.path = "translationStatus"
IsResultPatch(c) == c.op = "add" /\ c.path = "detectedLanguageResults"
IsDelete(c) == c.op = "delete"

\* The status patches of a log, in order
StatusPatches(log) == SelectSeq(log, IsStatusPatch)

RECURSIVE StatusValues(_)
StatusValues(log) ==
  IF log = <<>> THEN <<>>
  ELSE IF IsStatusPatch(Head(log))
       THEN <<Head(log).value>> \o StatusValues(Tail(log))
       ELSE StatusValues(Tail(log))

\* Every state-store operation scheduled so far, delivered ones first
AllOps == storeCalls \o timers

RECURSIVE OpsBy(_, _)
OpsBy(log, id) ==
  IF log = <<>> THEN <<>>
  ELSE IF Head(log).by = id
       THEN <<Head(log)>> \o OpsBy(Tail(log), id)
       ELSE OpsBy(Tail(log), id)

IsPrefix(s, t) == Len(s) <= Len(t) /\ SubSeq(t, 1, Len(s)) = s

IsHttpUrl(url) ==
  \/ Len(url) >= 7 /\ SubSeq(url, 1, 7) = <<"h", "t", "t", "p", ":", "/", "/">>
  \/ Len(url) >= 8 /\ SubSeq(url, 1, 8) = <<"h", "t", "t", "p", "s", ":", "/", "/">>

Detects == { i \in 1..Len(calls) : calls[i].kind = "detect" }
Translates == { i \in 1..Len(calls) : calls[i].kind = "translate" }

\* ------------------------------------------------------------------ claims

\* C1: every broadcastUpdatedTranslationStatus(s) call results in exactly one
\* later translationStatus replace patch carrying s: the patches delivered
\* followed by the patches pending are exactly the broadcasts issued, in the
\* order issued (none lost, duplicated, reordered or coalesced); the step that
\* issues a broadcast delivers nothing to the state store; and every pending
\* patch is eventually delivered.
C1_BroadcastPerTransition ==
  /\ [](StatusPatches(storeCalls) \o StatusPatches(timers) = issued)
  /\ [][Len(issued') > Len(issued) => storeCalls' = storeCalls]_vars
  /\ (timers # <<>>) ~> (timers = <<>>)

\* Two status changes issued in one step were delivered as two notifications.
C1_Witness ==
  /\ timers = <<>>
  /\ \E k \in 1..(Len(storeCalls) - 1) :
       /\ IsStatusPatch(storeCalls[k]) /\ IsStatusPatch(storeCalls[k + 1])
       /\ storeCalls[k].by = storeCalls[k + 1].by
       /\ storeCalls[k].value = DETECTING_LANGUAGE
       /\ storeCalls[k + 1].value = LANGUAGE_NOT_DETECTED
       /\ calls[storeCalls[k].by].out = "short"

\* The scenario of C2: a detection on an http(s) page with a sample of at
\* least 100 characters and a confident result, followed (after it finished)
\* by one doTranslation, the content window staying valid.
C2_Scenario ==
  /\ Len(calls) = 2
  /\ calls[1].kind = "detect" /\ IsHttpUrl(calls[1].url) /\ calls[1].len >= 100
  /\ calls[1].pc = "done" /\ calls[1].result.confident
  /\ calls[2].kind = "translate" /\ calls[2].solo
  /\ contentWindow.alive

\* C2: in that scenario the statuses delivered to the state store are a
\* prefix of DETECTING_LANGUAGE, OFFER, TRANSLATING, TRANSLATED unless the
\* translator failed, and are exactly that sequence once the translator has
\* succeeded and all timers have run.
C2_StatusSequence ==
  C2_Scenario =>
    /\ calls[2].out # "error" =>
         IsPrefix(StatusValues(storeCalls),
                  <<DETECTING_LANGUAGE, OFFER, TRANSLATING, TRANSLATED>>)
    /\ (calls[2].out = "translated" /\ timers = <<>>) =>
         StatusValues(storeCalls) =
           <<DETECTING_LANGUAGE, OFFER, TRANSLATING, TRANSLATED>>

C2_Witness ==
  /\ C2_Scenario
  /\ calls[2].out = "translated"
  /\ timers = <<>>
  /\ Len(StatusValues(storeCalls)) = 4

\* C3: an attemptToDetectLanguage on a document whose URL starts with neither
\* http:// nor https:// schedules exactly one state-store operation, the
\* status patch UNAVAILABLE, never calls the detector and returns.
C3_NonWebUnavailable ==
  \A i \in Detects :
    ~IsHttpUrl(calls[i].url) =>
      /\ OpsBy(AllOps, i) = <<[op |-> "replace", path |-> "translationStatus",
                               value |-> UNAVAILABLE, by |-> i]>>
      /\ i \notin detectorCalls
      /\ calls[i].pc = "done"

C3_Witness ==
  \E i \in Detects :
    /\ ~IsHttpUrl(calls[i].url)
    /\ OpsBy(storeCalls, i) # <<>>
    /\ \E j \in detectorCalls : j # i

\* C4: an attemptToDetectLanguage on an http(s) document whose sample is
\* shorter than 100 characters broadcasts DETECTING_LANGUAGE and then
\* LANGUAGE_NOT_DETECTED, schedules nothing else (no detection result), and
\* does not call the detector; with a sample of 100 characters or more the
\* detector is called.
C4_ShortSample ==
  \A i \in Detects :
    IsHttpUrl(calls[i].url) =>
      /\ calls[i].len < 100 =>
           /\ StatusValues(OpsBy(AllOps, i)) =
                <<DETECTING_LANGUAGE, LANGUAGE_NOT_DETECTED>>
           /\ Len(OpsBy(AllOps, i)) = 2
           /\ i \notin detectorCalls
           /\ calls[i].pc = "done"
      /\ calls[i].len >= 100 => i \in detectorCalls

C4_Witness ==
  /\ \E i \in Detects :
       IsHttpUrl(calls[i].url) /\ calls[i].len = 99 /\ calls[i].pc = "done"
  /\ \E i \in Detects :
       IsHttpUrl(calls[i].url) /\ calls[i].len = 100 /\ i \in detectorCalls

\* Detection attempts whose detector result arrived while the content window
\* was valid / invalid
ResultWithWindow == { i \in Detects : calls[i].pc = "done" /\ i \in detectorCalls
                                      /\ ~calls[i].gone }
ResultWithoutWindow == { i \in Detects : calls[i].pc = "done" /\ i \in detectorCalls
                                         /\ calls[i].gone }

\* C5: when the detector result arrives with the content window valid, the
\* attempt schedules, after DETECTING_LANGUAGE, the add of
\* detectedLanguageResults carrying that result and then one status: OFFER
\* if the result is confident, LANGUAGE_NOT_DETECTED if it is not.
C5_ConfidentOffer ==
  \A i \in ResultWithWindow :
    LET ops == OpsBy(AllOps, i)
    IN /\ Len(ops) = 3
       /\ IsResultPatch(ops[2]) /\ ops[2].result = calls[i].result
       /\ StatusValues(ops) =
            <<DETECTING_LANGUAGE,
              IF calls[i].result.confident THEN OFFER ELSE LANGUAGE_NOT_DETECTED>>

C5_Witness ==
  /\ \E i \in ResultWithWindow : calls[i].result.confident
  /\ \E i \in ResultWithWindow : ~calls[i].result.confident

\* C6: when the detector result arrives with the content window invalid, the
\* attempt's state-store operations are exactly the DETECTING_LANGUAGE patch
\* followed by the delete of the frame's state: no detection result, OFFER or
\* LANGUAGE_NOT_DETECTED, and the delete is last.
C6_StaleTeardown ==
  \A i \in ResultWithoutWindow :
    OpsBy(AllOps, i) =
      <<[op |-> "replace", path |-> "translationStatus",
         value |-> DETECTING_LANGUAGE, by |-> i],
        [op |-> "delete", by |-> i]>>

C6_Witness ==
  \E i \in ResultWithoutWindow :
    /\ calls[i].orphaned
    /\ calls[i].result.confident
    /\ Len(OpsBy(storeCalls, i)) = 2

\* C7 (as claimed): an activation whose frame was destroyed while it was
\* awaiting the detector or the translator discards the result: it performs
\* no showTranslation and schedules no detection result and none of the
\* statuses TRANSLATED, ERROR, OFFER, LANGUAGE_NOT_DETECTED.
C7_OrphanDiscarded ==
  \A i \in 1..Len(calls) :
    calls[i].orphaned =>
      /\ calls[i].out # "translated"
      /\ \A k \in 1..Len(AllOps) :
           AllOps[k].by = i =>
             /\ ~IsResultPatch(AllOps[k])
             /\ IsStatusPatch(AllOps[k]) =>
                  AllOps[k].value \notin
                    {TRANSLATED, ERROR, OFFER, LANGUAGE_NOT_DETECTED}

\* C8 (as claimed): at most one doTranslation per document is awaiting its
\* translator at a time.
C8_OneTranslateInFlight ==
  \A i, j \in Translates :
    (/\ calls[i].pc = "awaitTranslate"
     /\ calls[j].pc = "awaitTranslate"
     /\ calls[i].doc = calls[j].doc) => i = j

\* C9: when translate() rejects, the catch step sets the document's
\* translationError flag, leaves every unit's text (and the shown flag) as it
\* was, and the statuses the operation broadcasts are exactly TRANSLATING
\* followed by ERROR (never TRANSLATED).
C9_ErrorKeepsPartial ==
  /\ [](\A i \in Translates :
          calls[i].out = "error" =>
            StatusValues(OpsBy(AllOps, i)) = <<TRANSLATING, ERROR>>)
  /\ [][\A i \in Translates :
          (calls[i].pc = "awaitTranslate" /\ calls'[i].out = "error") =>
            /\ docs'[calls[i].doc].translationError
            /\ docs'[calls[i].doc].units = docs[calls[i].doc].units
            /\ docs'[calls[i].doc].shown = docs[calls[i].doc].shown]_vars

\* A failed operation whose first partition had been applied: the unit keeps
\* its translated text and the flag is set.
C9_Witness ==
  \E i \in Translates :
    /\ calls[i].out = "error"
    /\ calls[i].next = 2
    /\ Len(docs[calls[i].doc].units) >= 2
    /\ docs[calls[i].doc].units[1] # NoText
    /\ docs[calls[i].doc].units[2] = NoText
    /\ docs[calls[i].doc].translationError

\* C10 (as claimed): no activation of attemptToDetectLanguage or
\* doTranslation ends with its promise rejected.
C10_NoUnhandledFailure ==
  \A i \in 1..Len(calls) : calls[i].pc # "rejected"

\* C11: the documents constructed by doTranslation number at most one, every
\* doTranslation that got past the content window uses that one document,
\* and a translation that succeeded leaves in every unit the translation of
\* the unit's original page text for its language pair, however many
\* translations came before it.
C11_OneDocumentReused ==
  /\ Len(docs) <= 1
  /\ \A i \in Translates : calls[i].pc # "rejected" => calls[i].doc = 1
  /\ \A i \in Translates :
       calls[i].out = "translated" =>
         \A u \in DOMAIN docs[calls[i].doc].units :
           docs[calls[i].doc].units[u] =
             <<"text", calls[i].from, calls[i].to>>

\* A second translation succeeded on the document of the first, on a page
\* with units.
C11_Witness ==
  \E i, j \in Translates :
    /\ i < j
    /\ calls[i].out = "translated" /\ calls[j].out = "translated"
    /\ calls[j].solo
    /\ calls[i].doc = calls[j].doc
    /\ Len(docs[calls[j].doc].units) > 0
    /\ dom[1] = <<"text", calls[j].from, calls[j].to>>

\* The status notifications delivered for the frame, in order
StatusLog == StatusPatches(storeCalls)

\* C12 (as claimed): every TRANSLATING delivered is immediately preceded by
\* OFFER or LANGUAGE_NOT_DETECTED.
C12_TranslatingOnlyAfterOffer ==
  \A k \in 1..Len(StatusLog) :
    StatusLog[k].value = TRANSLATING =>
      /\ k > 1
      /\ StatusLog[k - 1].value \in {OFFER, LANGUAGE_NOT_DETECTED}

\* Detection attempts that ran to an outcome on an http(s) page with the
\* content window valid
CompletedDetects ==
  { j \in Detects : IsHttpUrl(calls[j].url) /\ calls[j].pc = "done" /\ ~calls[j].gone }

\* C12 (amended): every doTranslation that finds a content window broadcasts
\* TRANSLATING first, whatever was broadcast before; the TRANSLATING of a
\* doTranslation invoked while no other call was in flight, delivered right
\* after a status of a detection attempt that completed on an http(s) page
\* with the window valid, is preceded by OFFER or LANGUAGE_NOT_DETECTED.
C12_TranslatingAfterDetection ==
  /\ \A i \in Translates :
       calls[i].pc # "rejected" =>
         /\ OpsBy(AllOps, i) # <<>>
         /\ Head(OpsBy(AllOps, i)) = [op |-> "replace", path |-> "translationStatus",
                                      value |-> TRANSLATING, by |-> i]
  /\ \A k \in 2..Len(StatusLog) :
       (/\ StatusLog[k].value = TRANSLATING
        /\ calls[StatusLog[k].by].solo
        /\ StatusLog[k - 1].by \in CompletedDetects) =>
          StatusLog[k - 1].value \in {OFFER, LANGUAGE_NOT_DETECTED}

C12_Witness ==
  \E k \in 2..Len(StatusLog) :
    /\ StatusLog[k].value = TRANSLATING
    /\ calls[StatusLog[k].by].solo
    /\ StatusLog[k - 1].by \in CompletedDetects
    /\ StatusLog[k - 1].value = OFFER

Stats == { i \in 1..Len(calls) : calls[i].kind = "stats" }

\* C13: a step of getDocumentTranslationStatistics (its call, or the callback
\* that lets it return) changes no TranslationDocument, not the document
\* attached to the content window, not the page, and schedules or delivers
\* no state-store operation.
C13_StatisticsReadOnly ==
  [][((Len(calls') > Len(calls) /\ calls'[Len(calls')].kind = "stats")
      \/ \E i \in Stats : calls'[i] # calls[i]) =>
       /\ docs' = docs
       /\ contentWindow' = contentWindow
       /\ dom' = dom
       /\ timers' = timers
       /\ storeCalls' = storeCalls
       /\ issued' = issued]_vars

\* Statistics returned for a frame with a translated document attached.
C13_Witness ==
  \E i \in Stats : /\ calls[i].pc = "done" /\ calls[i].doc # 0
                   /\ docs[calls[i].doc].units # <<>>
                   /\ docs[calls[i].doc].units[1] # NoText

\* C14: the observer of getElementsVisibleInViewport calls back at most
\* once; after its callback it observes nothing, and the promise is resolved
\* with exactly the targets of the entries of that callback that are
\* intersecting; the statistics call has returned exactly when the callback
\* has been delivered.
C14_OneShotObservation ==
  \A i \in Stats :
    /\ calls[i].fired <= 1
    /\ calls[i].fired = 1 =>
         /\ calls[i].observing = {}
         /\ calls[i].pc = "done"
         /\ calls[i].visible =
              { el \in DOMAIN calls[i].entries : calls[i].entries[el] }
    /\ calls[i].pc = "done" => calls[i].fired = 1

\* A callback reported some but not all of the observed elements as
\* intersecting.
C14_Witness ==
  \E i \in Stats :
    /\ calls[i].fired = 1
    /\ calls[i].visible # {}
    /\ calls[i].visible # DOMAIN calls[i].entries

\* C15 (as claimed), for one detection attempt and one doTranslation in any
\* interleaving: the status delivered next after TRANSLATING is TRANSLATED or
\* ERROR, and no status of the detection attempt is delivered after
\* TRANSLATED or ERROR when the attempt was called before the translation.
C15_TranslatingThenOutcome ==
  (Cardinality(Detects) = 1 /\ Cardinality(Translates) = 1) =>
    \A k \in 1..(Len(StatusLog) - 1) :
      /\ StatusLog[k].value = TRANSLATING =>
           StatusLog[k + 1].value \in {TRANSLATED, ERROR}
      /\ (/\ StatusLog[k].value \in {TRANSLATED, ERROR}
          /\ StatusLog[k + 1].by < StatusLog[k].by) =>
           StatusLog[k + 1].value \notin
             {OFFER, LANGUAGE_NOT_DETECTED, UNAVAILABLE, DETECTING_LANGUAGE}

\* Has activation i broadcast the status s / has a status of i among ss been
\* delivered / has the delete of i been delivered
Broadcast(i, s) ==
  \E k \in 1..Len(issued) : issued[k].by = i /\ issued[k].value = s
Delivered(i, ss) ==
  \E k \in 1..Len(StatusLog) : StatusLog[k].by = i /\ StatusLog[k].value \in ss
DeleteDelivered(i) ==
  \E k \in 1..Len(storeCalls) : IsDelete(storeCalls[k]) /\ storeCalls[k].by = i

\* C16 (as claimed): under LiveSpec every activation that broadcast
\* DETECTING_LANGUAGE leads to a delivered UNAVAILABLE, LANGUAGE_NOT_DETECTED
\* or OFFER of its own or to the delivered delete, and every activation that
\* broadcast TRANSLATING leads to a delivered TRANSLATED or ERROR of its own.
C16_TransientNotFinal ==
  \A i \in 1..MaxCalls :
    /\ (i <= Len(calls) /\ Broadcast(i, DETECTING_LANGUAGE)) ~>
         (Delivered(i, {UNAVAILABLE, LANGUAGE_NOT_DETECTED, OFFER})
            \/ DeleteDelivered(i))
    /\ (i <= Len(calls) /\ Broadcast(i, TRANSLATING)) ~>
         Delivered(i, {TRANSLATED, ERROR})

C18_ResultBeforeStatus ==
  \A k \in 1..Len(storeCalls) :
    (/\ IsStatusPatch(storeCalls[k])
     /\ storeCalls[k].value \in {OFFER, LANGUAGE_NOT_DETECTED}
     /\ storeCalls[k].by \in detectorCalls) =>
       /\ k > 1
       /\ IsResultPatch(storeCalls[k - 1])
       /\ storeCalls[k - 1].by = storeCalls[k].by
       /\ storeCalls[k - 1].result = calls[storeCalls[k].by].result

C18_Witness ==
  \E k \in 2..Len(storeCalls) :
    /\ IsStatusPatch(storeCalls[k])
    /\ storeCalls[k].value = OFFER
    /\ IsResultPatch(storeCalls[k - 1])
    /\ timers = <<>>

\* C19 (as claimed): under LiveSpec every getDocumentTranslationStatistics
\* call eventually returns.
C19_StatisticsReturns ==
  \A i \in 1..MaxCalls :
    (i <= Len(calls) /\ calls[i].kind = "stats") ~>
      (i <= Len(calls) /\ calls[i].pc \in {"done", "rejected"})
====
